---- MODULE Spec2Model ----
(***************************************************************************)
(* Model of the CLA robot (robot.go): the evaluation of a pull request's   *)
(* commits against the signing oracle, and the reconciliation of the pull  *)
(* request's labels and comments with the verdict.                         *)
(*                                                                         *)
(* Strings the code inspects (emails, SHAs) are sequences of one-character *)
(* strings, so that trimming, validation and truncation are computed.      *)
(***************************************************************************)
EXTENDS Integers, Sequences, FiniteSets, TLC

(* ------------------------------ bounds --------------------------------- *)
\* longest commit list of the evaluation specification
MaxCommits == 2
\* events delivered one at a time (Spec)
MaxPasses == 2
\* events delivered to the two concurrent handlers together (ConcSpec)
MaxConcPasses == 3
\* commits of a pull request in the identity specification
MaxIdentCommits == 2

(* --------------------------- program constants ------------------------- *)
maxLengthOfSHA == 8

\* signGuideTitle() and the legacy prefix of deleteSignGuide, as tokens
signGuideTitle == <<"Thanks for your pull request.", "not signed the CLA:">>
prefixOld == <<"Thanks for your pull request. Before we can look at your pull request, you'll need to sign a Contributor License Agreement (CLA).">>

(* ------------------------------ strings -------------------------------- *)
SP == " "
TAB == "\t"

Min(a, b) == IF a < b THEN a ELSE b

\* strings.HasPrefix(s, prefix)
HasPrefix(s, prefix) ==
    /\ Len(s) >= Len(prefix)
    /\ SubSeq(s, 1, Len(prefix)) = prefix

RECURSIVE TrimLeft(_, _)
TrimLeft(s, cutset) ==
    IF s # <<>> /\ Head(s) \in cutset THEN TrimLeft(Tail(s), cutset) ELSE s

RECURSIVE TrimRight(_, _)
TrimRight(s, cutset) ==
    IF s # <<>> /\ s[Len(s)] \in cutset
    THEN TrimRight(SubSeq(s, 1, Len(s) - 1), cutset)
    ELSE s

\* strings.Trim(s, cutset): leading and trailing characters of cutset removed
Trim(s, cutset) == TrimRight(TrimLeft(s, cutset), cutset)

\* characters a mailbox name and a domain may consist of
LocalChars == {"a", "A", "b", "n", "."}
DomainChars == {"x", "."}

\* utils.IsValidEmail: local part, "@", domain, nothing else
IsValidEmail(email) ==
    \E k \in 1..Len(email) :
        /\ email[k] = "@"
        /\ k > 1
        /\ k < Len(email)
        /\ \A i \in 1..(k - 1) : email[i] \in LocalChars
        /\ \A i \in (k + 1)..Len(email) : email[i] \in DomainChars

(* --------------------------- configuration ----------------------------- *)
\* litePRCommiter.isLitePR(email, name)
isLitePR(rule, email, name) == email = rule.Email \/ name = rule.Name

LiteRule == [Email |-> <<"n", "@", "x">>, Name |-> "web-flow"]

\* botConfig of the configured repository
botConfig(checkByCommitter) ==
    [CLALabelYes |-> "cla/yes",
     CLALabelNo |-> "cla/no",
     CheckByCommitter |-> checkByCommitter,
     LitePRCommitter |-> LiteRule]

(* ------------------------------ commits -------------------------------- *)
\* a nil *sdk.RepositoryCommit: every getter yields the zero value
NilCommit ==
    [SHA |-> <<>>, Message |-> "", AuthorEmail |-> <<>>,
     CommitterEmail |-> <<>>, CommitterName |-> ""]

\* getAuthorOfCommit without the lite-PR exception
getAuthorOfCommit_mut(c, cfg) ==
    IF c = NilCommit THEN <<>>
    ELSE IF cfg.CheckByCommitter
         THEN c.CommitterEmail
         ELSE c.AuthorEmail

getAuthorOfCommit(c, cfg) ==
    IF c = NilCommit THEN <<>>
    ELSE IF cfg.CheckByCommitter
            /\ ~isLitePR(cfg.LitePRCommitter, c.CommitterEmail, c.CommitterName)
         THEN c.CommitterEmail
         ELSE c.AuthorEmail

(* --------------------------- signing oracle ---------------------------- *)
\* what the registry sends back for one email
Responses ==
    {[transport |-> TRUE, status |-> 200, body |-> "signed"],
     [transport |-> TRUE, status |-> 200, body |-> "unsigned"],
     [transport |-> TRUE, status |-> 200, body |-> "malformed"],
     [transport |-> TRUE, status |-> 404, body |-> "unsigned"],
     [transport |-> FALSE, status |-> 0, body |-> "malformed"]}

RespSigned == [transport |-> TRUE, status |-> 200, body |-> "signed"]
RespUnsigned == [transport |-> TRUE, status |-> 200, body |-> "unsigned"]
RespError == [transport |-> TRUE, status |-> 404, body |-> "unsigned"]

\* isSigned(email, url): the registry's response decoded
isSigned(email, registry) ==
    LET resp == registry[email] IN
    IF ~resp.transport THEN [b |-> FALSE, err |-> "transport"]
    ELSE IF resp.status < 200 \/ resp.status > 299
         THEN [b |-> FALSE, err |-> "status"]
    ELSE IF resp.body = "malformed" THEN [b |-> FALSE, err |-> "unmarshal"]
    ELSE [b |-> resp.body = "signed", err |-> "nil"]

(* ----------------------------- evaluation ------------------------------ *)
EmptyMap == [sha \in {} |-> ""]

\* update(c) writing the message under every key
update_mut(unsigned, c) ==
    [sha \in (DOMAIN unsigned) \cup {c.SHA} |-> c.Message]

\* update(c) of getUnsignedCommits
update(unsigned, c) ==
    [sha \in (DOMAIN unsigned) \cup {c.SHA} |->
        IF sha = c.SHA THEN c.Message ELSE unsigned[sha]]

\* the loop without the memo: every valid identity is looked up again
RECURSIVE evalLoop_mut(_, _, _, _, _, _, _)
evalLoop_mut(commits, i, unsigned, result, lookups, cfg, registry) ==
    IF i > Len(commits)
    THEN IF <<>> \in DOMAIN unsigned
         THEN [unsigned |-> EmptyMap, err |-> "invalid commit exists", lookups |-> lookups]
         ELSE [unsigned |-> unsigned, err |-> "nil", lookups |-> lookups]
    ELSE
        LET c == commits[i]
            email == Trim(getAuthorOfCommit(c, cfg), {SP})
        IN
        IF ~IsValidEmail(email)
        THEN evalLoop_mut(commits, i + 1, update(unsigned, c), result, lookups, cfg, registry)
        ELSE
            LET r == isSigned(email, registry) IN
            IF r.err # "nil"
            THEN [unsigned |-> EmptyMap, err |-> r.err, lookups |-> Append(lookups, email)]
            ELSE evalLoop_mut(commits, i + 1,
                              IF ~r.b THEN update(unsigned, c) ELSE unsigned,
                              result, Append(lookups, email), cfg, registry)

\* the loop of getUnsignedCommits from commit i on; lookups is the list of
\* emails the oracle has been asked about, in order
RECURSIVE evalLoop(_, _, _, _, _, _, _)
evalLoop(commits, i, unsigned, result, lookups, cfg, registry) ==
    IF i > Len(commits)
    THEN IF <<>> \in DOMAIN unsigned
         THEN [unsigned |-> EmptyMap, err |-> "invalid commit exists", lookups |-> lookups]
         ELSE [unsigned |-> unsigned, err |-> "nil", lookups |-> lookups]
    ELSE
        LET c == commits[i]
            email == Trim(getAuthorOfCommit(c, cfg), {SP})
        IN
        IF ~IsValidEmail(email)
        THEN evalLoop(commits, i + 1, update(unsigned, c), result, lookups, cfg, registry)
        ELSE IF email \in DOMAIN result
        THEN evalLoop(commits, i + 1,
                      IF ~result[email] THEN update(unsigned, c) ELSE unsigned,
                      result, lookups, cfg, registry)
        ELSE
            LET r == isSigned(email, registry) IN
            IF r.err # "nil"
            THEN [unsigned |-> EmptyMap, err |-> r.err, lookups |-> Append(lookups, email)]
            ELSE evalLoop(commits, i + 1,
                          IF ~r.b THEN update(unsigned, c) ELSE unsigned,
                          [e \in (DOMAIN result) \cup {email} |->
                              IF e = email THEN r.b ELSE result[e]],
                          Append(lookups, email), cfg, registry)

\* getUnsignedCommits after the commit listing succeeded
getUnsignedCommits(commits, cfg, registry) ==
    IF Len(commits) = 0
    THEN [unsigned |-> EmptyMap, err |-> "commits is empty", lookups |-> <<>>]
    ELSE evalLoop(commits, 1, EmptyMap, [e \in {} |-> FALSE], <<>>, cfg, registry)

\* generateUnSignComment: one line per unsigned commit, in no guaranteed order
generateUnSignComment(unsigned) ==
    {<<SubSeq(sha, 1, Min(Len(sha), maxLengthOfSHA)), unsigned[sha]>> :
        sha \in DOMAIN unsigned}

\* signGuide(signURL, cInfo, faq)
signGuide(cInfo) == signGuideTitle \o <<cInfo, "faq", "sign">>

\* alreadySigned(user)
alreadySigned(user) == <<"***@", user, "***, thanks for your pull request.">>

(* ------------------------------ universes ------------------------------ *)
Procs == {1, 2}

EmailA == <<"a", "@", "x">>
EmailUpperA == <<"A", "@", "x">>
EmailB == <<"b", "@", "x">>
EmailSpaced == <<SP, "a", "@", "x", SP>>
EmailTabbed == <<"a", "@", "x", TAB>>
EmailNoAt == <<"a", "x">>

ShaShort == <<"a", "b", "c">>
ShaLong == <<"d", "e", "a", "d", "b", "e", "e", "f", "0", "0">>

\* the emails the registry is ever asked about
RegistryEmails == {EmailA, EmailUpperA, EmailB}

\* commits of the evaluation specification
EvalCommits ==
    {NilCommit} \cup
    [SHA : {<<>>, ShaShort, ShaLong},
     Message : {"m1", "m2"},
     AuthorEmail : {EmailA, EmailUpperA, EmailSpaced, EmailTabbed, EmailNoAt},
     CommitterEmail : {EmailB},
     CommitterName : {"dev"}]

\* commits of the identity specification: committers that match the lite-PR
\* rule by email, by name, by both, or not at all
IdentCommits ==
    [SHA : {ShaShort},
     Message : {"m1"},
     AuthorEmail : {EmailA, EmailSpaced, EmailNoAt},
     CommitterEmail : {EmailB, LiteRule.Email},
     CommitterName : {"dev", LiteRule.Name}]

SeqsUpTo(S, n) == UNION {[1..k -> S] : k \in 0..n}

\* what GetPRCommits may list in the pull-request specifications: nothing,
\* one commit, an invalid identity before a valid one, a nil commit
PRCommitLists ==
    {<<>>,
     <<[SHA |-> ShaShort, Message |-> "m1", AuthorEmail |-> EmailSpaced,
        CommitterEmail |-> EmailB, CommitterName |-> "dev"]>>,
     <<[SHA |-> ShaLong, Message |-> "m2", AuthorEmail |-> EmailNoAt,
        CommitterEmail |-> LiteRule.Email, CommitterName |-> "web-flow"],
       [SHA |-> ShaShort, Message |-> "m1", AuthorEmail |-> EmailSpaced,
        CommitterEmail |-> EmailB, CommitterName |-> "dev"]>>,
     <<NilCommit>>}

\* the identities a commit list resolves to under a configuration
Identities(commits, cfg) ==
    {Trim(getAuthorOfCommit(commits[i], cfg), {SP}) : i \in 1..Len(commits)}

\* registries that differ only on the identities of the commits
RegistriesFor(commits, cfg, responses) ==
    {r \in [RegistryEmails -> responses] :
        \A e \in RegistryEmails \ Identities(commits, cfg) : r[e] = RespSigned}

\* a guidance comment: its body starts with the current or the legacy title
IsGuidance(body) ==
    \/ Len(body) >= 2 /\ <<body[1], body[2]>> = signGuideTitle
    \/ Len(body) >= 1 /\ <<body[1]>> = prefixOld

Guidance(cs) == {c \in cs : IsGuidance(c.body)}

OtherLabel == "kind/bug"
OtherComment == <<"LGTM">>

(* -------------------------------- state -------------------------------- *)
VARIABLES
    labels,        \* labels of the pull request
    comments,      \* comments of the pull request: records [id, body]
    nextID,        \* id the next created comment gets
    commitsOnPR,   \* commits of the pull request
    registry,      \* the signing registry: email -> response
    config,        \* botConfig of the configured repository
    pc,            \* position of each handler
    pass,          \* locals of each handler, and the record of its calls
    budget         \* [passes, delivered]: events left, events delivered

vars == <<labels, comments, nextID, commitsOnPR, registry, config, pc, pass,
          budget>>

NoPrev == [valid |-> FALSE, envSame |-> FALSE, allOK |-> FALSE]

IdlePass ==
    [event |-> [type |-> "none", author |-> "", qualifies |-> FALSE,
                configured |-> FALSE],
     labels |-> {},
     commits |-> <<>>,
     unsigned |-> EmptyMap,
     v |-> <<>>,
     yes |-> FALSE,
     err |-> "nil",
     log |-> <<>>,
     lookups |-> <<>>,
     labels0 |-> {},
     comments0 |-> {},
     envChanged |-> FALSE,
     alone |-> TRUE,
     no |-> 0,
     sweepOK |-> TRUE,
     eval |-> "none",
     prev |-> NoPrev]

\* f matching the acknowledgement comments too
f_ack(s) ==
    \/ HasPrefix(s, signGuideTitle)
    \/ HasPrefix(s, prefixOld)
    \/ HasPrefix(s, <<"***@">>)

\* f matching every comment
f_all(s) == TRUE

\* f without the legacy prefix
f_current(s) == HasPrefix(s, signGuideTitle)

\* f of deleteSignGuide
f(s) == HasPrefix(s, signGuideTitle) \/ HasPrefix(s, prefixOld)

(* ------------------------------- events -------------------------------- *)
ConfiguredRepo == "org/repo"
UnconfiguredRepo == "org/other"

\* comment bodies: lines of tokens
Bodies ==
    {<<<<"/check-cla">>>>,
     <<<<"thanks">>, <<"/CHECK-CLA", SP, TAB>>>>,
     <<<<"/check-cla", "please">>>>,
     <<<<"see", "/check-cla">>>>}

ToLower(tok) == IF tok = "/CHECK-CLA" THEN "/check-cla" ELSE tok

\* checkCLARe = (?mi)^/check-cla\s*$
checkCLARe(body) ==
    \E l \in 1..Len(body) :
        /\ Len(body[l]) >= 1
        /\ ToLower(body[l][1]) = "/check-cla"
        /\ \A k \in 2..Len(body[l]) : body[l][k] \in {SP, TAB}

PullRequestEvents ==
    [type : {"pr"}, state : {"open", "closed"},
     action : {"opened", "synchronize", "labeled"},
     repo : {ConfiguredRepo, UnconfiguredRepo}, author : {"alice"}]

IssueCommentEvents ==
    [type : {"note"}, action : {"created", "deleted"}, onPR : BOOLEAN,
     body : Bodies, repo : {ConfiguredRepo, UnconfiguredRepo}, author : {"alice"}]

\* handleNoteEvent without the test that the comment is on a pull request
Qualifies_mut(e) ==
    IF e.type = "pr"
    THEN e.state = "open" /\ e.action \in {"opened", "synchronize"}
    ELSE e.action = "created" /\ checkCLARe(e.body)

\* the early returns of handlePREvent and handleNoteEvent
Qualifies(e) ==
    IF e.type = "pr"
    THEN e.state = "open" /\ e.action \in {"opened", "synchronize"}
    ELSE e.action = "created" /\ e.onPR /\ checkCLARe(e.body)

\* getConfig: configFor(org, repo) is not nil
HasConfig(e) == e.repo = ConfiguredRepo

\* what the handlers read of an event: its kind and author, whether it passes
\* the early returns, whether its repository is configured
EventRead(e) ==
    [type |-> e.type, author |-> e.author,
     qualifies |-> Qualifies(e), configured |-> HasConfig(e)]

(* ------------------------------ handlers ------------------------------- *)
Active(q) == pc[q] \notin {"idle", "done"}

\* handle adding the fail label without looking at hasCLANo
AfterPurge_mut(ps, cfg) ==
    LET hasCLAYes == cfg.CLALabelYes \in ps.labels
        hasCLANo == cfg.CLALabelNo \in ps.labels
    IN
    IF DOMAIN ps.unsigned = {}
    THEN IF hasCLANo THEN "removeNo"
         ELSE IF ~hasCLAYes THEN "addYes"
         ELSE "return"
    ELSE IF hasCLAYes THEN "removeYes"
         ELSE "addNo"

\* the pc handle goes to once the stale guidance comments are swept
AfterPurge(ps, cfg) ==
    LET hasCLAYes == cfg.CLALabelYes \in ps.labels
        hasCLANo == cfg.CLALabelNo \in ps.labels
    IN
    IF DOMAIN ps.unsigned = {}
    THEN IF hasCLANo THEN "removeNo"
         ELSE IF ~hasCLAYes THEN "addYes"
         ELSE "return"
    ELSE IF hasCLAYes THEN "removeYes"
         ELSE IF ~hasCLANo THEN "addNo"
         ELSE "post"

\* handleNoteEvent acknowledging although handle returned an error
AfterHandle_mut(ps) ==
    IF ps.event.type = "note" /\ ps.yes THEN "ack" ELSE "done"

\* what the event handler does with the (yes, err) handle returned
AfterHandle(ps) ==
    IF ps.event.type = "note" /\ ps.err = "nil" /\ ps.yes THEN "ack" ELSE "done"

Goto(next, ps) == IF next = "return" THEN AfterHandle(ps) ELSE next

Logged(ps, op, arg, ok) ==
    [ps EXCEPT !.log = Append(@, [op |-> op, arg |-> arg, ok |-> ok])]

AllOK(log) == \A k \in 1..Len(log) : log[k].ok

\* the comments of a listing, in the order of their ids
RECURSIVE Listing(_)
Listing(cs) ==
    IF cs = {} THEN <<>>
    ELSE LET first == CHOOSE c \in cs : \A d \in cs : c.id <= d.id
         IN <<first>> \o Listing(cs \ {first})

\* the pass got as far as handle and made a client call
Handled(ps) == ps.log # <<>>

\* an event reaches handlePREvent or handleNoteEvent; e is what the handlers
\* read of it (EventRead)
Deliver(p, e) ==
    /\ pc[p] \in {"idle", "done"}
    /\ budget.passes > 0
    /\ budget' = [budget EXCEPT !.passes = @ - 1, !.delivered = @ + 1]
    /\ LET go == e.qualifies /\ e.configured
           old == pass[p]
           ignored == [IdlePass EXCEPT
                         !.event = e,
                         !.err = IF e.qualifies /\ ~e.configured
                                 THEN "no config for this repo" ELSE "nil",
                         !.sweepOK = old.sweepOK]
           fresh == [ignored EXCEPT
                       !.labels = labels,
                       !.labels0 = labels,
                       !.comments0 = comments,
                       !.alone = \A q \in Procs \ {p} : ~Active(q),
                       !.no = budget.delivered + 1,
                       !.prev = IF Handled(old)
                                THEN [valid |-> TRUE,
                                      envSame |-> ~old.envChanged,
                                      allOK |-> AllOK(old.log)]
                                ELSE NoPrev]
       IN
       /\ pass' = [q \in Procs |->
                     IF q = p THEN IF go THEN fresh ELSE ignored
                     ELSE IF go /\ Active(q) THEN [pass[q] EXCEPT !.alone = FALSE]
                     ELSE pass[q]]
       /\ pc' = [pc EXCEPT ![p] = IF go THEN "commits" ELSE "done"]
    /\ UNCHANGED <<labels, comments, nextID, commitsOnPR, registry, config>>

\* bot.cli.GetPRCommits(pr) of getUnsignedCommits
GetPRCommits(p, oks) ==
    /\ pc[p] = "commits"
    /\ \E ok \in oks :
        /\ pass' = [pass EXCEPT ![p] =
                      [Logged(@, "GetPRCommits", "", ok) EXCEPT
                          !.commits = IF ok THEN commitsOnPR ELSE <<>>,
                          !.eval = IF ok THEN "none" ELSE "failed",
                          !.err = IF ok THEN "nil" ELSE "GetPRCommits failed"]]
        /\ pc' = [pc EXCEPT ![p] = IF ok THEN "evaluate" ELSE "done"]
    /\ UNCHANGED <<labels, comments, nextID, commitsOnPR, registry, config, budget>>

\* getUnsignedCommits taking the pass label of the pull request for the
\* verdict of its emails instead of asking the registry
Evaluate_carried(p) ==
    /\ pc[p] = "evaluate"
    /\ LET known == IF config.CLALabelYes \in pass[p].labels
                    THEN [e \in DOMAIN registry |-> RespSigned]
                    ELSE registry
           r == getUnsignedCommits(pass[p].commits, config, known)
       IN
       /\ pass' = [pass EXCEPT ![p] =
                     [@ EXCEPT !.unsigned = r.unsigned,
                               !.err = r.err,
                               !.eval = IF r.err # "nil" THEN "failed" ELSE "ok",
                               !.lookups = r.lookups]]
       /\ pc' = [pc EXCEPT ![p] = IF r.err # "nil" THEN "done" ELSE "comments"]
    /\ UNCHANGED <<labels, comments, nextID, commitsOnPR, registry, config, budget>>

\* handle going on although getUnsignedCommits returned an error
Evaluate_mut(p) ==
    /\ pc[p] = "evaluate"
    /\ LET r == getUnsignedCommits(pass[p].commits, config, registry) IN
       /\ pass' = [pass EXCEPT ![p] =
                     [@ EXCEPT !.unsigned = r.unsigned,
                               !.err = r.err,
                               !.eval = IF r.err # "nil" THEN "failed" ELSE "ok",
                               !.lookups = r.lookups]]
       /\ pc' = [pc EXCEPT ![p] = "comments"]
    /\ UNCHANGED <<labels, comments, nextID, commitsOnPR, registry, config, budget>>

\* getUnsignedCommits after the listing, up to the return to handle
Evaluate(p) ==
    /\ pc[p] = "evaluate"
    /\ LET r == getUnsignedCommits(pass[p].commits, config, registry) IN
       /\ pass' = [pass EXCEPT ![p] =
                     [@ EXCEPT !.unsigned = r.unsigned,
                               !.err = r.err,
                               !.eval = IF r.err # "nil" THEN "failed" ELSE "ok",
                               !.lookups = r.lookups]]
       /\ pc' = [pc EXCEPT ![p] = IF r.err # "nil" THEN "done" ELSE "comments"]
    /\ UNCHANGED <<labels, comments, nextID, commitsOnPR, registry, config, budget>>

\* handle returning the error of a failed comment listing
GetPRComments_mut(p, oks) ==
    /\ pc[p] = "comments"
    /\ \E ok \in oks :
        /\ LET v == IF ok THEN Listing({c \in comments : f(c.body)}) ELSE <<>>
               ps == [Logged(pass[p], "GetPRComments", "", ok) EXCEPT
                         !.v = v, !.sweepOK = @ /\ ok,
                         !.err = IF ok THEN "nil" ELSE "GetPRComments failed"]
           IN
           /\ pass' = [pass EXCEPT ![p] = ps]
           /\ pc' = [pc EXCEPT ![p] =
                       IF ~ok THEN "done"
                       ELSE IF v # <<>> THEN "purge"
                       ELSE Goto(AfterPurge(ps, config), ps)]
    /\ UNCHANGED <<labels, comments, nextID, commitsOnPR, registry, config, budget>>

\* c.GetPRComments(pr) of deleteSignGuide, and the filter f
GetPRComments(p, oks) ==
    /\ pc[p] = "comments"
    /\ \E ok \in oks :
        /\ LET v == IF ok THEN Listing({c \in comments : f(c.body)}) ELSE <<>>
               ps == [Logged(pass[p], "GetPRComments", "", ok) EXCEPT
                         !.v = v, !.sweepOK = @ /\ ok]
           IN
           /\ pass' = [pass EXCEPT ![p] = ps]
           /\ pc' = [pc EXCEPT ![p] =
                       IF v # <<>> THEN "purge" ELSE Goto(AfterPurge(ps, config), ps)]
    /\ UNCHANGED <<labels, comments, nextID, commitsOnPR, registry, config, budget>>

\* deleteSignGuide leaving its loop after the first deletion
DeletePRComment_mut(p, oks) ==
    /\ pc[p] = "purge"
    /\ LET item == Head(pass[p].v) IN
       \E ok \in (IF item \in comments THEN oks ELSE {FALSE}) :
        /\ comments' = IF ok THEN comments \ {item} ELSE comments
        /\ LET ps == [Logged(pass[p], "DeletePRComment", item.id, ok) EXCEPT
                         !.v = <<>>, !.sweepOK = @ /\ ok]
           IN
           /\ pass' = [pass EXCEPT ![p] = ps]
           /\ pc' = [pc EXCEPT ![p] = Goto(AfterPurge(ps, config), ps)]
    /\ UNCHANGED <<labels, nextID, commitsOnPR, registry, config, budget>>

\* c.DeletePRComment(pr.Org, pr.Repo, item.GetID()) of deleteSignGuide
DeletePRComment(p, oks) ==
    /\ pc[p] = "purge"
    /\ LET item == Head(pass[p].v) IN
       \E ok \in (IF item \in comments THEN oks ELSE {FALSE}) :
        /\ comments' = IF ok THEN comments \ {item} ELSE comments
        /\ LET ps == [Logged(pass[p], "DeletePRComment", item.id, ok) EXCEPT
                         !.v = Tail(@), !.sweepOK = @ /\ ok]
           IN
           /\ pass' = [pass EXCEPT ![p] = ps]
           /\ pc' = [pc EXCEPT ![p] =
                       IF ps.v # <<>> THEN "purge" ELSE Goto(AfterPurge(ps, config), ps)]
    /\ UNCHANGED <<labels, nextID, commitsOnPR, registry, config, budget>>

\* handle returning after the removal of the fail label, the pass label not added
RemoveNo_mut(p, oks) ==
    /\ pc[p] = "removeNo"
    /\ \E ok \in oks :
        /\ labels' = IF ok THEN labels \ {config.CLALabelNo} ELSE labels
        /\ LET ps == [Logged(pass[p], "RemovePRLabel", config.CLALabelNo, ok) EXCEPT
                         !.err = IF ok THEN "nil" ELSE "Could not remove label"]
           IN
           /\ pass' = [pass EXCEPT ![p] = ps]
           /\ pc' = [pc EXCEPT ![p] = AfterHandle(ps)]
    /\ UNCHANGED <<comments, nextID, commitsOnPR, registry, config, budget>>

\* handle, compliant branch: bot.cli.RemovePRLabel(pr, cfg.CLALabelNo)
RemoveNo(p, oks) ==
    /\ pc[p] = "removeNo"
    /\ \E ok \in oks :
        /\ labels' = IF ok THEN labels \ {config.CLALabelNo} ELSE labels
        /\ LET ps == [Logged(pass[p], "RemovePRLabel", config.CLALabelNo, ok) EXCEPT
                         !.err = IF ok THEN "nil" ELSE "Could not remove label"]
           IN
           /\ pass' = [pass EXCEPT ![p] = ps]
           /\ pc' = [pc EXCEPT ![p] =
                       IF ~ok THEN AfterHandle(ps)
                       ELSE IF config.CLALabelYes \notin ps.labels THEN "addYes"
                       ELSE AfterHandle(ps)]
    /\ UNCHANGED <<comments, nextID, commitsOnPR, registry, config, budget>>

\* handle setting yes only once the pass label is added
AddYes_mut(p, oks) ==
    /\ pc[p] = "addYes"
    /\ \E ok \in oks :
        /\ labels' = IF ok THEN labels \cup {config.CLALabelYes} ELSE labels
        /\ LET ps == [Logged(pass[p], "AddPRLabel", config.CLALabelYes, ok) EXCEPT
                         !.yes = ok,
                         !.err = IF ok THEN "nil" ELSE "Could not add label"]
           IN
           /\ pass' = [pass EXCEPT ![p] = ps]
           /\ pc' = [pc EXCEPT ![p] = AfterHandle(ps)]
    /\ UNCHANGED <<comments, nextID, commitsOnPR, registry, config, budget>>

\* handle, compliant branch: yes = true; bot.cli.AddPRLabel(pr, cfg.CLALabelYes)
AddYes(p, oks) ==
    /\ pc[p] = "addYes"
    /\ \E ok \in oks :
        /\ labels' = IF ok THEN labels \cup {config.CLALabelYes} ELSE labels
        /\ LET ps == [Logged(pass[p], "AddPRLabel", config.CLALabelYes, ok) EXCEPT
                         !.yes = TRUE,
                         !.err = IF ok THEN "nil" ELSE "Could not add label"]
           IN
           /\ pass' = [pass EXCEPT ![p] = ps]
           /\ pc' = [pc EXCEPT ![p] = AfterHandle(ps)]
    /\ UNCHANGED <<comments, nextID, commitsOnPR, registry, config, budget>>

\* handle going on to the fail label after a failed removal of the pass label
RemoveYes_mut(p, oks) ==
    /\ pc[p] = "removeYes"
    /\ \E ok \in oks :
        /\ labels' = IF ok THEN labels \ {config.CLALabelYes} ELSE labels
        /\ LET ps == [Logged(pass[p], "RemovePRLabel", config.CLALabelYes, ok) EXCEPT
                         !.err = IF ok THEN "nil" ELSE "Could not remove label"]
           IN
           /\ pass' = [pass EXCEPT ![p] = ps]
           /\ pc' = [pc EXCEPT ![p] =
                       IF config.CLALabelNo \notin ps.labels THEN "addNo"
                       ELSE "post"]
    /\ UNCHANGED <<comments, nextID, commitsOnPR, registry, config, budget>>

\* handle, non-compliant branch: bot.cli.RemovePRLabel(pr, cfg.CLALabelYes)
RemoveYes(p, oks) ==
    /\ pc[p] = "removeYes"
    /\ \E ok \in oks :
        /\ labels' = IF ok THEN labels \ {config.CLALabelYes} ELSE labels
        /\ LET ps == [Logged(pass[p], "RemovePRLabel", config.CLALabelYes, ok) EXCEPT
                         !.err = IF ok THEN "nil" ELSE "Could not remove label"]
           IN
           /\ pass' = [pass EXCEPT ![p] = ps]
           /\ pc' = [pc EXCEPT ![p] =
                       IF ~ok THEN AfterHandle(ps)
                       ELSE IF config.CLALabelNo \notin ps.labels THEN "addNo"
                       ELSE "post"]
    /\ UNCHANGED <<comments, nextID, commitsOnPR, registry, config, budget>>

\* handle returning the error of a failed addition of the fail label
AddNo_mut(p, oks) ==
    /\ pc[p] = "addNo"
    /\ \E ok \in oks :
        /\ labels' = IF ok THEN labels \cup {config.CLALabelNo} ELSE labels
        /\ LET ps == [Logged(pass[p], "AddPRLabel", config.CLALabelNo, ok) EXCEPT
                         !.err = IF ok THEN "nil" ELSE "Could not add label"]
           IN
           /\ pass' = [pass EXCEPT ![p] = ps]
           /\ pc' = [pc EXCEPT ![p] = IF ok THEN "post" ELSE AfterHandle(ps)]
    /\ UNCHANGED <<comments, nextID, commitsOnPR, registry, config, budget>>

\* handle, non-compliant branch: bot.cli.AddPRLabel(pr, cfg.CLALabelNo);
\* a failure is logged as a warning and err stays nil
AddNo(p, oks) ==
    /\ pc[p] = "addNo"
    /\ \E ok \in oks :
        /\ labels' = IF ok THEN labels \cup {config.CLALabelNo} ELSE labels
        /\ pass' = [pass EXCEPT ![p] = Logged(@, "AddPRLabel", config.CLALabelNo, ok)]
        /\ pc' = [pc EXCEPT ![p] = "post"]
    /\ UNCHANGED <<comments, nextID, commitsOnPR, registry, config, budget>>

\* handle: bot.cli.CreatePRComment(pr, signGuide(...)) and the return
PostGuide(p, oks) ==
    /\ pc[p] = "post"
    /\ \E ok \in oks :
        /\ LET body == signGuide(generateUnSignComment(pass[p].unsigned))
               ps == [Logged(pass[p], "CreatePRComment", "guide", ok) EXCEPT
                         !.err = IF ok THEN "nil" ELSE "CreatePRComment failed"]
           IN
           /\ comments' = IF ok THEN comments \cup {[id |-> nextID, body |-> body]}
                          ELSE comments
           /\ nextID' = IF ok THEN nextID + 1 ELSE nextID
           /\ pass' = [pass EXCEPT ![p] = ps]
           /\ pc' = [pc EXCEPT ![p] = AfterHandle(ps)]
    /\ UNCHANGED <<labels, commitsOnPR, registry, config, budget>>

\* handleNoteEvent: bot.cli.CreatePRComment(pr, alreadySigned(info.GetAuthor()))
PostAck(p, oks) ==
    /\ pc[p] = "ack"
    /\ \E ok \in oks :
        /\ LET body == alreadySigned(pass[p].event.author)
               ps == [Logged(pass[p], "CreatePRComment", "ack", ok) EXCEPT
                         !.err = IF ok THEN "nil" ELSE "CreatePRComment failed"]
           IN
           /\ comments' = IF ok THEN comments \cup {[id |-> nextID, body |-> body]}
                          ELSE comments
           /\ nextID' = IF ok THEN nextID + 1 ELSE nextID
           /\ pass' = [pass EXCEPT ![p] = ps]
           /\ pc' = [pc EXCEPT ![p] = "done"]
    /\ UNCHANGED <<labels, commitsOnPR, registry, config, budget>>

\* The commits are read only by GetPRCommits and the registry only by
\* Evaluate: a change is taken when a handler is about to read what changes,
\* or when no handler runs (any other moment gives the same behaviours of the
\* handlers).
EnvReadable(at) ==
    \/ \E p \in Procs : pc[p] = at
    \/ \A p \in Procs : ~Active(p)

\* every pass that reached handle learns that what it evaluated may have changed
EnvChanged ==
    [q \in Procs |-> IF Active(q) \/ pass[q].log # <<>>
                     THEN [pass[q] EXCEPT !.envChanged = TRUE]
                     ELSE pass[q]]

\* somebody pushes to the source branch
Push ==
    /\ EnvReadable("commits")
    /\ \E cs \in PRCommitLists :
        /\ cs # commitsOnPR
        /\ commitsOnPR' = cs
    /\ pass' = EnvChanged
    /\ UNCHANGED <<labels, comments, nextID, registry, config, pc, budget>>

\* the registry's answer for one email changes to another of the responses
RegistryChange(responses) ==
    /\ EnvReadable("evaluate")
    /\ \E e \in Identities(commitsOnPR, config) \cap RegistryEmails :
       \E r \in responses :
        /\ r # registry[e]
        /\ registry' = [registry EXCEPT ![e] = r]
    /\ pass' = EnvChanged
    /\ UNCHANGED <<labels, comments, nextID, commitsOnPR, config, pc, budget>>

Events == PullRequestEvents \cup IssueCommentEvents

\* the events of the concurrent specification: those that reach handle, and
\* one that is ignored
ConcEvents ==
    {e \in Events : Qualifies(e) /\ HasConfig(e) /\ e.action \in {"opened", "created"}}
    \cup {e \in PullRequestEvents : e.state = "closed" /\ e.action = "labeled" /\ HasConfig(e)}

\* what the handlers read of the events of each specification
EventsRead == {EventRead(e) : e \in Events}
ConcEventsRead == {EventRead(e) : e \in ConcEvents}

\* one step of handler p: the events that may arrive, as the handlers read
\* them, and the outcomes (success, failure) a client call may have
Step(p, events, oks) ==
    \/ \E e \in events : Deliver(p, e)
    \/ GetPRCommits(p, oks)
    \/ Evaluate(p)
    \/ GetPRComments(p, oks)
    \/ DeletePRComment(p, oks)
    \/ RemoveNo(p, oks)
    \/ AddYes(p, oks)
    \/ RemoveYes(p, oks)
    \/ AddNo(p, oks)
    \/ PostGuide(p, oks)
    \/ PostAck(p, oks)

(* ------------- specification: events handled one at a time ------------- *)
InitialComments ==
    {{[id |-> 1, body |-> OtherComment]},
     {[id |-> 1, body |-> OtherComment],
      [id |-> 2, body |-> prefixOld \o <<"sign here">>]}}

PRInit(passes) ==
    /\ config = botConfig(FALSE)
    /\ \E S \in SUBSET {config.CLALabelYes, config.CLALabelNo} :
          labels = S \cup {OtherLabel}
    /\ comments \in InitialComments
    /\ nextID = 3
    /\ commitsOnPR \in PRCommitLists
    /\ registry \in RegistriesFor(commitsOnPR, config, {RespSigned, RespUnsigned, RespError})
    /\ pc = [p \in Procs |-> "idle"]
    /\ pass = [p \in Procs |-> IdlePass]
    /\ budget = [passes |-> passes, delivered |-> 0]

Init == PRInit(MaxPasses)

Next ==
    \/ Step(1, EventsRead, BOOLEAN)
    \/ Push
    \/ RegistryChange({RespSigned, RespUnsigned, RespError})

Spec == Init /\ [][Next]_vars

(* --------------- specification: two concurrent handlers ---------------- *)
ConcInit ==
    /\ config = botConfig(FALSE)
    /\ labels = {OtherLabel}
    /\ comments = {[id |-> 1, body |-> OtherComment]}
    /\ nextID = 2
    /\ commitsOnPR \in {cs \in PRCommitLists : Identities(cs, config) = {EmailA}}
    /\ registry \in RegistriesFor(commitsOnPR, config, {RespSigned, RespUnsigned})
    /\ pc = [p \in Procs |-> "idle"]
    /\ pass = [p \in Procs |-> IdlePass]
    /\ budget = [passes |-> MaxConcPasses, delivered |-> 0]

\* the client's calls succeed, but for the deletion of a comment that another
\* pass has deleted already, and the registry answers every lookup
ConcNext ==
    \/ \E p \in Procs : Step(p, ConcEventsRead, {TRUE})
    \/ RegistryChange({RespSigned, RespUnsigned})

ConcSpec == ConcInit /\ [][ConcNext]_vars

(* --------------------- specification of the evaluation ----------------- *)
\* a pass that has listed one of the commit lists and is about to evaluate it
EvalInitOver(lists) ==
    /\ labels = {}
    /\ comments = {}
    /\ nextID = 1
    /\ commitsOnPR \in lists
    /\ \E cbc \in BOOLEAN : config = botConfig(cbc)
    /\ registry \in RegistriesFor(commitsOnPR, config, {RespSigned, RespUnsigned, RespError})
    /\ pc = [p \in Procs |-> IF p = 1 THEN "evaluate" ELSE "idle"]
    /\ pass = [p \in Procs |->
                 IF p = 1 THEN [IdlePass EXCEPT !.commits = commitsOnPR,
                                                !.event.type = "pr",
                                                !.event.qualifies = TRUE,
                                                !.event.configured = TRUE,
                                                !.no = 1]
                 ELSE IdlePass]
    /\ budget = [passes |-> 0, delivered |-> 1]

EvalInit == EvalInitOver(SeqsUpTo(EvalCommits, MaxCommits))

EvalNext == Evaluate(1)

EvalSpec == EvalInit /\ [][EvalNext]_vars

(* ------------- specification of the resolution of identities ---------- *)
IdentInit == EvalInitOver(SeqsUpTo(IdentCommits, MaxIdentCommits))

IdentNext == Evaluate(1)

IdentSpec == IdentInit /\ [][IdentNext]_vars

(* ----------------------------- properties ------------------------------ *)
LabelOps == {"AddPRLabel", "RemovePRLabel"}
MutatingOps == {"AddPRLabel", "RemovePRLabel", "CreatePRComment", "DeletePRComment"}

\* the positions of a pass's log that hold a call of one of the operations
Calls(ps, ops) == {k \in 1..Len(ps.log) : ps.log[k].op \in ops}

\* getUnsignedCommits returned without error
Evaluated(ps) == ps.eval = "ok"

Compliant(ps) == Evaluated(ps) /\ DOMAIN ps.unsigned = {}

AckCalls(ps) == {k \in Calls(ps, {"CreatePRComment"}) : ps.log[k].arg = "ack"}

\* C1: a '/check-cla' re-check whose evaluation finds no unsigned commit and
\* whose client calls all succeed purges every guidance comment and then
\* posts exactly one acknowledgement addressed to the requesting user,
\* whatever labels the pull request had (the pass label included).
C1_RecheckAcknowledged ==
    \A p \in Procs :
        (/\ pc[p] = "done"
         /\ pass[p].event.type = "note"
         /\ Compliant(pass[p])
         /\ AllOK(pass[p].log))
        => /\ Cardinality(AckCalls(pass[p])) = 1
           /\ \A k \in AckCalls(pass[p]) :
                 \A d \in Calls(pass[p], {"DeletePRComment"}) : d < k
           /\ Guidance(pass[p].comments0) \cap comments = {}
           /\ \E c \in comments \ pass[p].comments0 :
                 c.body = alreadySigned(pass[p].event.author)

\* C2: reconcile with an empty unsigned set on a pull request that has the
\* pass label and not the fail label issues no label call and returns
\* fullySigned = true with no error.
C2_AlreadyLabelledReportsSigned ==
    \A p \in Procs :
        (/\ pc[p] = "done"
         /\ Compliant(pass[p])
         /\ config.CLALabelYes \in pass[p].labels
         /\ config.CLALabelNo \notin pass[p].labels)
        => /\ Calls(pass[p], LabelOps) = {}
           /\ pass[p].yes
           /\ pass[p].err = "nil"

\* C3: reconcile run twice in succession with the same commits and oracle
\* answers, every client call succeeding, the second run seeing the labels
\* and comments the first left: the second run issues no label call, and
\* leaves as many guidance comments as the first did.
C3_SecondRunIdempotent ==
    (/\ pc[1] = "done"
     /\ Handled(pass[1])
     /\ AllOK(pass[1].log)
     /\ pass[1].prev.valid
     /\ pass[1].prev.allOK
     /\ pass[1].prev.envSame
     /\ ~pass[1].envChanged)
    => /\ Calls(pass[1], LabelOps) = {}
       /\ Cardinality(Guidance(comments)) = Cardinality(Guidance(pass[1].comments0))

\* a second run that purged the first run's guidance comment and posted anew
C3_Witness ==
    /\ pc[1] = "done"
    /\ AllOK(pass[1].log)
    /\ pass[1].prev.valid
    /\ pass[1].prev.allOK
    /\ pass[1].prev.envSame
    /\ ~pass[1].envChanged
    /\ Calls(pass[1], {"DeletePRComment"}) # {}
    /\ Calls(pass[1], {"CreatePRComment"}) # {}
    /\ Cardinality(Guidance(pass[1].comments0)) = 1

\* strings.TrimSpace: all surrounding whitespace removed
TrimSpace(s) == Trim(s, {SP, TAB})

DistinctNonEmptySHAs(commits) ==
    /\ Len(commits) > 0
    /\ \A i \in 1..Len(commits) : commits[i].SHA # <<>>
    /\ \A i, j \in 1..Len(commits) : commits[i].SHA = commits[j].SHA => i = j

\* the unsigned map holds exactly the commits whose identity, trimmed by
\* trim, is not a valid email or is answered negatively, each with its message
UnsignedExactly(ps, trim(_)) ==
    /\ \A i \in 1..Len(ps.commits) :
          LET c == ps.commits[i]
              id == trim(getAuthorOfCommit(c, config))
          IN
          /\ c.SHA \in DOMAIN ps.unsigned
                <=> (~IsValidEmail(id) \/ ~isSigned(id, registry).b)
          /\ c.SHA \in DOMAIN ps.unsigned => ps.unsigned[c.SHA] = c.Message
    /\ DOMAIN ps.unsigned \subseteq {ps.commits[i].SHA : i \in 1..Len(ps.commits)}

TrimSpaces(s) == Trim(s, {SP})

C5_FailedEvaluationMutatesNothing ==
    \A p \in Procs :
        (pc[p] = "done" /\ pass[p].eval = "failed")
        => /\ pass[p].err # "nil"
           /\ Calls(pass[p], MutatingOps) = {}
           /\ Calls(pass[p], {"GetPRComments"}) = {}
           /\ labels = pass[p].labels0
           /\ comments = pass[p].comments0

\* the oracle fails on the second commit after the first was marked unsigned
C5_Witness ==
    /\ pc[1] = "done"
    /\ pass[1].eval = "failed"
    /\ Len(pass[1].commits) = 2
    /\ ~IsValidEmail(Trim(getAuthorOfCommit(pass[1].commits[1], config), {SP}))
    /\ pass[1].commits[1].SHA # <<>>
    /\ pass[1].err = "status"

\* C6: within one evaluation the oracle is asked at most once about each
\* distinct trimmed email, only about emails that are valid, and only about
\* identities of the commits.
C6_OneLookupPerEmail ==
    LET l == pass[1].lookups IN
    /\ \A i, j \in 1..Len(l) : l[i] = l[j] => i = j
    /\ \A i \in 1..Len(l) :
          /\ IsValidEmail(l[i])
          /\ l[i] \in Identities(pass[1].commits, config)

\* two commits whose identities differ before trimming and agree after it,
\* answered by one lookup
C6_Witness ==
    /\ pc[1] # "evaluate"
    /\ Len(pass[1].commits) = 2
    /\ getAuthorOfCommit(pass[1].commits[1], config) = EmailA
    /\ getAuthorOfCommit(pass[1].commits[2], config) = EmailSpaced
    /\ pass[1].lookups = <<EmailA>>
    /\ pass[1].eval = "ok"

\* handle returned an error (the acknowledgement was not reached)
HandleFailed(ps) == Handled(ps) /\ ps.err # "nil" /\ AckCalls(ps) = {}

LastCall(ps) == ps.log[Len(ps.log)]

\* C7 (as claimed): a pass that aborts with an error at any required step
\* leaves the labels and the comments of the pull request as they were
\* before the pass.
C7_AbortLeavesPRUnchanged ==
    \A p \in Procs :
        (pc[p] = "done" /\ HandleFailed(pass[p]))
        => /\ labels = pass[p].labels0
           /\ comments = pass[p].comments0

\* C7 (amended): a pass that aborts at the commit listing or at an oracle
\* lookup leaves labels and comments as they were.  A pass that aborts later
\* rolls nothing back: the guidance comments it purged stay deleted (no other
\* comment is deleted, none is added); the labels are unchanged after a
\* failed removal, are without the fail label and otherwise unchanged after a
\* failed addition of the pass label, and after a failed guidance post are
\* without the pass label, the fail label staying if it was there.
C7_AbortKeepsEarlierMutations ==
    \A p \in Procs :
        (pc[p] = "done" /\ HandleFailed(pass[p]))
        => LET ps == pass[p]
               yesL == config.CLALabelYes
               noL == config.CLALabelNo
           IN
           /\ comments \subseteq ps.comments0
           /\ ps.comments0 \ comments \subseteq Guidance(ps.comments0)
           /\ ps.eval = "failed" =>
                 labels = ps.labels0 /\ comments = ps.comments0
           /\ (ps.eval = "ok" /\ LastCall(ps).op = "RemovePRLabel") =>
                 labels = ps.labels0
           /\ (ps.eval = "ok" /\ LastCall(ps).op = "AddPRLabel") =>
                 labels = ps.labels0 \ {noL}
           /\ (ps.eval = "ok" /\ LastCall(ps).op = "CreatePRComment") =>
                 /\ labels \ {noL} = ps.labels0 \ {yesL, noL}
                 /\ noL \in ps.labels0 => noL \in labels

\* a pass that purged a guidance comment and then failed to remove a label
C7_Witness ==
    /\ pc[1] = "done"
    /\ HandleFailed(pass[1])
    /\ LastCall(pass[1]).op = "RemovePRLabel"
    /\ comments # pass[1].comments0
    /\ labels = pass[1].labels0

\* C8: in passes run one at a time in which every comment listing and every
\* deletion succeeded, at most one guidance comment exists after each
\* completed pass, and none after a pass whose unsigned set was empty.
C8_AtMostOneGuidance ==
    (pc[1] = "done" /\ pass[1].sweepOK)
    => /\ Cardinality(Guidance(comments)) <= 1
       /\ Compliant(pass[1]) => Guidance(comments) = {}

\* a later pass that deleted the earlier guidance comment and posted its own
C8_Witness ==
    /\ pc[1] = "done"
    /\ pass[1].sweepOK
    /\ pass[1].prev.valid
    /\ Calls(pass[1], {"DeletePRComment"}) # {}
    /\ Cardinality(Guidance(comments)) = 1
    /\ Guidance(comments) \cap pass[1].comments0 = {}

SweepCalls(ps) == Calls(ps, {"GetPRComments", "DeletePRComment"})

\* the pass of p ran alone, is the latest pass, listed the comments and
\* had every listing and deletion succeed
RanAloneSweeping(p) ==
    /\ pc[p] = "done"
    /\ pass[p].alone
    /\ \A q \in Procs \ {p} : ~Active(q) /\ pass[q].no < pass[p].no
    /\ Calls(pass[p], {"GetPRComments"}) # {}
    /\ \A k \in SweepCalls(pass[p]) : pass[p].log[k].ok

\* C9: two interleaved non-compliant passes can leave two guidance comments;
\* from such a state the next pass that runs alone and whose comment listing
\* and deletions succeed leaves at most one guidance comment.
C9_NextPassAloneHeals ==
    \A p \in Procs :
        (RanAloneSweeping(p) /\ Cardinality(Guidance(pass[p].comments0)) >= 2)
        => Cardinality(Guidance(comments)) <= 1

\* two interleaved passes each posted a guidance comment and a later pass,
\* alone, found both
C9_Witness ==
    \E p \in Procs :
        /\ RanAloneSweeping(p)
        /\ Cardinality(Guidance(pass[p].comments0)) = 2
        /\ \A c \in Guidance(pass[p].comments0) : HasPrefix(c.body, signGuideTitle)
        /\ \E q \in Procs \ {p} :
              /\ ~pass[q].alone
              /\ Calls(pass[q], {"CreatePRComment"}) # {}
              /\ ~Compliant(pass[q])

\* C10: once two passes on the same pull request, interleaved in any way,
\* have both completed without error, the pull request does not carry both
\* the pass label and the fail label, and a label it carries is the one of
\* the verdict of one of the two passes.
C10_InterleavedPassesConverge ==
    (/\ budget.delivered = 2
     /\ \A p \in Procs :
           /\ pc[p] = "done"
           /\ Evaluated(pass[p])
           /\ pass[p].err = "nil")
    => /\ ~(config.CLALabelYes \in labels /\ config.CLALabelNo \in labels)
       /\ config.CLALabelYes \in labels => \E p \in Procs : Compliant(pass[p])
       /\ config.CLALabelNo \in labels => \E p \in Procs : ~Compliant(pass[p])

GuideCalls(ps) == {k \in Calls(ps, {"CreatePRComment"}) : ps.log[k].arg = "guide"}

\* C11: a pass that runs alone with every client call succeeding, whatever
\* pass and fail labels the pull request had at its start, leaves exactly one
\* of the two: the pass label if the unsigned set was empty, the fail label
\* otherwise; a non-compliant pass posts exactly one guidance comment, a
\* compliant pass of a pull-request event posts no comment.
C11_ExactlyOneLabel ==
    (pc[1] = "done" /\ Evaluated(pass[1]) /\ AllOK(pass[1].log))
    => LET ps == pass[1]
           yesL == config.CLALabelYes
           noL == config.CLALabelNo
       IN
       /\ Compliant(ps) =>
             /\ yesL \in labels /\ noL \notin labels
             /\ GuideCalls(ps) = {}
             /\ ps.event.type = "pr" =>
                   /\ Calls(ps, {"CreatePRComment"}) = {}
                   /\ comments \subseteq ps.comments0
       /\ ~Compliant(ps) =>
             /\ noL \in labels /\ yesL \notin labels
             /\ Cardinality(GuideCalls(ps)) = 1
             /\ Cardinality(Guidance(comments \ ps.comments0)) = 1
             /\ Calls(ps, {"CreatePRComment"}) = GuideCalls(ps)

\* a non-compliant pass that started with both labels and removed the pass label
C11_Witness ==
    /\ pc[1] = "done"
    /\ Evaluated(pass[1])
    /\ AllOK(pass[1].log)
    /\ {config.CLALabelYes, config.CLALabelNo} \subseteq pass[1].labels0
    /\ ~Compliant(pass[1])
    /\ Calls(pass[1], {"RemovePRLabel"}) # {}
    /\ config.CLALabelYes \notin labels

\* the committer decides: the flag is set and the lite-PR rule does not match
ByCommitter(c, cfg) ==
    /\ cfg.CheckByCommitter
    /\ ~isLitePR(cfg.LitePRCommitter, c.CommitterEmail, c.CommitterName)

\* C12: getAuthorOfCommit returns the committer's email exactly when the
\* check-by-committer flag is set and the committer's (email, name) does not
\* match the lite-PR rule, the author's email in every other case; resolving
\* the identities makes no client call, and no oracle lookup of its own.
C12_ResolvedIdentity ==
    /\ \A i \in 1..Len(pass[1].commits) :
          LET c == pass[1].commits[i] IN
          /\ ByCommitter(c, config) => getAuthorOfCommit(c, config) = c.CommitterEmail
          /\ ~ByCommitter(c, config) => getAuthorOfCommit(c, config) = c.AuthorEmail
    /\ pass[1].log = <<>>
    /\ \A k \in 1..Len(pass[1].lookups) :
          \E i \in 1..Len(pass[1].commits) :
             LET c == pass[1].commits[i] IN
             pass[1].lookups[k] =
                Trim(IF ByCommitter(c, config) THEN c.CommitterEmail ELSE c.AuthorEmail,
                     {SP})

\* the flag is set; one commit is judged by its committer, the other, whose
\* committer matches the lite-PR rule by name only, by its author
C12_Witness ==
    /\ pc[1] # "evaluate"
    /\ config.CheckByCommitter
    /\ Len(pass[1].commits) = 2
    /\ pass[1].commits[1].CommitterName = "dev"
    /\ pass[1].commits[1].CommitterEmail = EmailB
    /\ pass[1].commits[2].CommitterName = LiteRule.Name
    /\ pass[1].commits[2].CommitterEmail = EmailB
    /\ pass[1].commits[2].AuthorEmail = EmailA
    /\ pass[1].lookups = <<EmailB, EmailA>>

FailedRemovals(ps) == {k \in Calls(ps, {"RemovePRLabel"}) : ~ps.log[k].ok}

\* C13: when the removal of the opposite label fails (the fail label in a
\* compliant pass, the pass label in a non-compliant one) the pass returns an
\* error with fullySigned = false, and no AddPRLabel and no CreatePRComment
\* call follows the failed removal.
C13_FailedRemovalAborts ==
    \A p \in Procs :
        \A k \in FailedRemovals(pass[p]) :
            /\ pc[p] = "done"
            /\ pass[p].err # "nil"
            /\ ~pass[p].yes
            /\ \A j \in Calls(pass[p], {"AddPRLabel", "CreatePRComment"}) : j < k
            /\ pass[p].log[k].arg =
                  IF Compliant(pass[p]) THEN config.CLALabelNo ELSE config.CLALabelYes

\* a re-check of a compliant pull request whose fail label could not be removed
C13_Witness ==
    /\ pc[1] = "done"
    /\ pass[1].event.type = "note"
    /\ Compliant(pass[1])
    /\ FailedRemovals(pass[1]) # {}
    /\ config.CLALabelYes \notin pass[1].labels0
    /\ config.CLALabelNo \in labels

FailedAdditions(ps, label) ==
    {k \in Calls(ps, {"AddPRLabel"}) : ps.log[k].arg = label /\ ~ps.log[k].ok}

\* C14: in a non-compliant pass that finds the fail label absent and fails to
\* add it, the guidance comment is still posted; the error returned is the
\* outcome of that post (none if it succeeds), and fullySigned is false.
C14_FailedFailLabelStillPosts ==
    \A p \in Procs :
        \A k \in FailedAdditions(pass[p], config.CLALabelNo) :
            /\ ~Compliant(pass[p])
            /\ config.CLALabelNo \notin pass[p].labels
            /\ pc[p] \in {"post", "done"}
            /\ pc[p] = "done" =>
                  /\ Len(pass[p].log) = k + 1
                  /\ k + 1 \in GuideCalls(pass[p])
                  /\ pass[p].err = "nil" <=> pass[p].log[k + 1].ok
                  /\ pass[p].log[k + 1].ok =>
                        Cardinality(Guidance(comments \ pass[p].comments0)) = 1
                  /\ ~pass[p].yes

\* the fail label could not be added, the guidance comment was posted and the
\* pass returned no error
C14_Witness ==
    /\ pc[1] = "done"
    /\ FailedAdditions(pass[1], config.CLALabelNo) # {}
    /\ pass[1].err = "nil"
    /\ config.CLALabelNo \notin labels
    /\ Guidance(comments \ pass[1].comments0) # {}

\* C15: in a compliant pass that finds the pass label absent and fails to add
\* it, handle returns fullySigned = true together with an error, and no
\* comment is posted.
C15_FailedPassLabelReportsSigned ==
    \A p \in Procs :
        \A k \in FailedAdditions(pass[p], config.CLALabelYes) :
            /\ Compliant(pass[p])
            /\ config.CLALabelYes \notin pass[p].labels
            /\ pc[p] = "done"
            /\ pass[p].yes
            /\ pass[p].err # "nil"
            /\ Calls(pass[p], {"CreatePRComment"}) = {}
            /\ comments \subseteq pass[p].comments0

\* a re-check whose removal of the fail label succeeded and whose addition of
\* the pass label failed
C15_Witness ==
    /\ pc[1] = "done"
    /\ pass[1].event.type = "note"
    /\ FailedAdditions(pass[1], config.CLALabelYes) # {}
    /\ Calls(pass[1], {"RemovePRLabel"}) # {}
    /\ pass[1].yes
    /\ labels \cap {config.CLALabelYes, config.CLALabelNo} = {}

DeleteCalls(ps) == Calls(ps, {"DeletePRComment"})

\* the sweep of a pass is over
Swept(p) == pc[p] \notin {"idle", "commits", "evaluate", "comments", "purge"}

\* C16: in a pass whose evaluation succeeds the comment listing and every
\* deletion come before any label call and any comment post, whatever the
\* verdict; a failed listing or deletion changes neither the value nor the
\* error the pass returns and does not stop the label and comment steps, and
\* a failed deletion does not stop the deletion of the other guidance
\* comments.
C16_SweepFirstAndBestEffort ==
    Evaluated(pass[1]) =>
    LET ps == pass[1]
        yesL == config.CLALabelYes
        noL == config.CLALabelNo
    IN
    /\ \A k \in SweepCalls(ps) :
          \A m \in Calls(ps, {"AddPRLabel", "RemovePRLabel", "CreatePRComment"}) : k < m
    /\ Swept(1) =>
          /\ Cardinality(Calls(ps, {"GetPRComments"})) = 1
          /\ {ps.log[k].arg : k \in DeleteCalls(ps)} =
                IF \A k \in Calls(ps, {"GetPRComments"}) : ps.log[k].ok
                THEN {c.id : c \in Guidance(ps.comments0)}
                ELSE {}
          /\ \A k, m \in DeleteCalls(ps) : ps.log[k].arg = ps.log[m].arg => k = m
    /\ pc[1] = "done" =>
          /\ ps.yes <=> /\ Compliant(ps)
                        /\ yesL \notin ps.labels
                        /\ FailedRemovals(ps) = {}
          /\ ps.err # "nil" =>
                /\ ~LastCall(ps).ok
                /\ Len(ps.log) \notin SweepCalls(ps)
          /\ ps.err = "nil" =>
                /\ \A k \in 1..Len(ps.log) :
                      \/ ps.log[k].ok
                      \/ k \in SweepCalls(ps)
                      \/ k \in FailedAdditions(ps, noL)
                /\ Compliant(ps) => yesL \in labels /\ noL \notin labels
                /\ ~Compliant(ps) =>
                      /\ yesL \notin labels
                      /\ \E k \in GuideCalls(ps) : ps.log[k].ok

\* the first of two guidance comments could not be deleted; the second was
\* deleted, the pass label removed and the guidance comment posted
C16_Witness ==
    /\ pc[1] = "done"
    /\ Evaluated(pass[1])
    /\ Cardinality(DeleteCalls(pass[1])) = 2
    /\ \E k \in DeleteCalls(pass[1]) :
          /\ ~pass[1].log[k].ok
          /\ k + 1 \in DeleteCalls(pass[1])
          /\ pass[1].log[k + 1].ok
    /\ pass[1].err = "nil"
    /\ \E k \in GuideCalls(pass[1]) : pass[1].log[k].ok

IsAck(body) == \E user \in {"alice"} : body = alreadySigned(user)

\* a step changes no label but the two configured ones, and deletes no
\* comment but guidance comments
FrameStep ==
    /\ labels' \ {config.CLALabelYes, config.CLALabelNo}
          = labels \ {config.CLALabelYes, config.CLALabelNo}
    /\ \A c \in comments \ comments' :
          HasPrefix(c.body, signGuideTitle) \/ HasPrefix(c.body, prefixOld)

\* C17: across any sequence of passes the only labels added or removed are
\* the configured pass and fail labels, and the only comments deleted are
\* those whose body starts with the current or the legacy guidance prefix:
\* every other label and comment, acknowledgements included, stays.
C17_Frame == [][FrameStep]_vars

\* a pass that deleted a guidance comment and changed the labels while the
\* acknowledgement of the pass before, the other comment and the other label
\* stayed
C17_Witness ==
    /\ pc[1] = "done"
    /\ \E k \in DeleteCalls(pass[1]) : pass[1].log[k].ok
    /\ labels # pass[1].labels0
    /\ OtherLabel \in labels
    /\ \E c \in pass[1].comments0 \cap comments : IsAck(c.body)
    /\ \E c \in pass[1].comments0 \cap comments : c.body = OtherComment

\* C18: no verdict is carried from one pass to the next.  A pass evaluates
\* the commits and the registry as they are when it runs: it asks the
\* registry about every distinct valid identity of its commits, whatever an
\* earlier pass asked, and its unsigned set is the one of the current
\* answers; so it reflects an answer that changed since the pass before, and
\* is the same for the same commits and answers.
C18_EachPassAsksAfresh ==
    (Evaluated(pass[1]) /\ ~pass[1].envChanged)
    => LET ps == pass[1] IN
       /\ ps.commits = commitsOnPR
       /\ {ps.lookups[k] : k \in 1..Len(ps.lookups)} =
             {id \in Identities(ps.commits, config) : IsValidEmail(id)}
       /\ DistinctNonEmptySHAs(ps.commits) => UnsignedExactly(ps, TrimSpaces)
       /\ \A i \in 1..Len(ps.commits) :
             LET id == Trim(getAuthorOfCommit(ps.commits[i], config), {SP}) IN
             (IsValidEmail(id) /\ registry[id] = RespUnsigned)
                => ps.commits[i].SHA \in DOMAIN ps.unsigned

\* the pass before ran with every call succeeding and left the pass label;
\* the registry or the commits changed; this pass asked again and found an
\* email unsigned
C18_Witness ==
    /\ pc[1] = "done"
    /\ Evaluated(pass[1])
    /\ ~pass[1].envChanged
    /\ pass[1].prev.valid
    /\ pass[1].prev.allOK
    /\ ~pass[1].prev.envSame
    /\ config.CLALabelYes \in pass[1].labels0
    /\ pass[1].lookups = <<EmailA>>
    /\ registry[EmailA] = RespUnsigned
    /\ DOMAIN pass[1].unsigned # {}

\* C19: an acknowledgement is posted only by the re-check handler and only
\* after a pass that returned fullySigned = true and no error: never for a
\* pull-request event, never after an error of the pass (a failed addition
\* of the pass label included), never when commits are unsigned.
C19_AckOnlyAfterSignedRecheck ==
    \A p \in Procs :
        \A k \in AckCalls(pass[p]) :
            LET ps == pass[p] IN
            /\ ps.event.type = "note"
            /\ ps.event.qualifies
            /\ Compliant(ps)
            /\ ps.yes
            /\ k = Len(ps.log)
            /\ pc[p] = "done"
            /\ \A j \in 1..(k - 1) : ps.log[j].ok \/ j \in SweepCalls(ps)
            /\ GuideCalls(ps) = {}

\* a re-check that removed the fail label, added the pass label and was
\* acknowledged
C19_Witness ==
    /\ pc[1] = "done"
    /\ \E k \in AckCalls(pass[1]) : pass[1].log[k].ok
    /\ Calls(pass[1], {"RemovePRLabel"}) # {}
    /\ Calls(pass[1], {"AddPRLabel"}) # {}
    /\ \E c \in comments \ pass[1].comments0 : IsAck(c.body)

\* a line that reads /check-cla, in any case, up to trailing whitespace
IsCheckCLALine(line) ==
    /\ Len(line) >= 1
    /\ line[1] \in {"/check-cla", "/CHECK-CLA"}
    /\ \A k \in 2..Len(line) : line[k] \in {SP, TAB}

\* the events the claim lets through
MayTrigger(e) ==
    \/ /\ e.type = "pr"
       /\ e.state = "open"
       /\ e.action \in {"opened", "synchronize"}
    \/ /\ e.type = "note"
       /\ e.action = "created"
       /\ e.onPR
       /\ \E l \in 1..Len(e.body) : IsCheckCLALine(e.body[l])

\* every event that passes the early returns is one the claim lets through
OnlyTriggersQualify == \A e \in Events : Qualifies(e) => MayTrigger(e)

\* C20: no client call and no oracle lookup is made unless the event
\* qualifies and its repository has a configuration.  A pull-request event
\* qualifies only if the pull request is open and the action is opened or
\* synchronize; a comment event only if it is a created comment on a pull
\* request with a whole line reading /check-cla in any case.  A qualifying
\* event without configuration returns an error and mutates nothing.
C20_NoCallUnlessQualifiedAndConfigured ==
    /\ OnlyTriggersQualify
    /\ \A p \in Procs :
          LET ps == pass[p] IN
          /\ (ps.log # <<>> \/ ps.lookups # <<>> \/ Active(p))
                => ps.event.qualifies /\ ps.event.configured
          /\ (pc[p] = "done" /\ ps.event.qualifies /\ ~ps.event.configured)
                => ps.err # "nil" /\ ps.log = <<>> /\ ps.lookups = <<>>
          /\ (pc[p] = "done" /\ ~ps.event.qualifies)
                => ps.err = "nil" /\ ps.log = <<>> /\ ps.lookups = <<>>

\* a re-check of an unconfigured repository was turned down after a pass on
\* the configured one had changed the pull request
C20_Witness ==
    /\ pc[1] = "done"
    /\ pass[1].event.type = "note"
    /\ pass[1].event.qualifies
    /\ ~pass[1].event.configured
    /\ pass[1].err # "nil"
    /\ budget.delivered = 2
    /\ nextID > 3

====
